---------------------------- MODULE Spec2Model ----------------------------
(***************************************************************************)
(* Model of the flash-arb-system core:                                     *)
(*   - rpc-manager/src/lib.rs      RpcManager / EndpointHealth             *)
(*   - swap-router/src/pool_graph.rs, route_finder.rs, route_optimizer.rs  *)
(* The endpoint manager is modelled with its two parking_lot RwLocks and   *)
(* several caller tasks; the router is modelled as a graph that grows by   *)
(* add_pool / update_reserves and is queried by find_route.                *)
(***************************************************************************)
EXTENDS Integers, Sequences, FiniteSets, TLC

(***************************************************************************)
(* Program constants of rpc-manager/src/lib.rs                             *)
(***************************************************************************)
MAX_REQUESTS_PER_SECOND == 50
\* Duration::from_secs(1) in should_throttle / record_request
WINDOW_SECS == 1
\* `consecutive_failures >= 5` in record_failure
UNHEALTHY_AFTER == 5

FALLBACK_ENDPOINTS ==
    << <<"https://api.devnet.solana.com", "">>,
       <<"https://api.testnet.solana.com", "">> >>

(***************************************************************************)
(* Bounds of the manager model                                             *)
(***************************************************************************)
\* number of caller tasks sharing the manager in ConcSpec
NumTasks == 2
\* requests still allowed in the construction window when a warmed-up
\* behaviour starts (see InitWith)
Headroom == 1
\* get_client calls issued in one behaviour
MaxSelects == 3
\* a caller stops reporting failures for an endpoint at this count
MaxFailures == 5
\* the clock (whole seconds since construction) stops once the construction
\* window has expired
MaxTime == WINDOW_SECS + 1

\* the credential lists RpcManager::new is given
KeyLists == {<<>>, <<"test-key-1">>}

(***************************************************************************)
(* Program constants and inputs of the swap router                         *)
(***************************************************************************)
\* pool_graph.rs: fee_impact = fee_bps / 10000.0
WEIGHT_FEE_SCALE == 10000
\* route_optimizer.rs: (10000 - fee_bps) / 10000
FEE_SCALE == 10000

Tokens == {"SOL", "USDC", "USDT"}
\* the token pairs pools are added for; add_pool accepts token_a = token_b
TokenPairs == {<<"SOL", "USDC">>, <<"SOL", "USDT">>, <<"USDC", "USDT">>,
               <<"USDT", "USDT">>}
\* the pools a behaviour may add, in this order, each at most once
PoolInputs ==
    << [pool_address |-> "pool1", dex_type |-> "RaydiumV4", fee_bps |-> 30],
       [pool_address |-> "pool2", dex_type |-> "RaydiumV4", fee_bps |-> 1],
       [pool_address |-> "pool3", dex_type |-> "OrcaWhirlpool", fee_bps |-> 25] >>
UnknownPool == "pool0"
\* (reserve_a, reserve_b) given to add_pool and update_reserves
ReservePairs == {<<1, 8>>, <<8, 8>>, <<0, 8>>}
\* amount_in given to find_route
AmountsIn == {0, 2}

\* format!("https://mainnet.helius-rpc.com/?api-key={}", key)
HeliusUrl(key) == <<"https://mainnet.helius-rpc.com/?api-key=", key>>
UnknownUrl == <<"https://unknown.example", "">>

VARIABLES
    endpoints,      \* Vec<EndpointHealth>, a function on 0..total-1
    current_index,  \* the rotating cursor
    now,            \* the monotonic clock read by Instant::now / elapsed
    readers,        \* tasks holding endpoints.read()
    idx_owner,      \* the task holding current_index.write(), if any
    pc,             \* per task: the statement of get_client it is at
    arg,            \* per task: selected_idx (and the candidates examined)
    last_ret,       \* history: outcome of the latest completed get_client
    sel_left,       \* get_client calls the callers may still issue
    sel_log,        \* history: successful selections of the current run of
                    \* selections made with every endpoint qualifying
    reports,        \* history, per known url: the failures reported since
                    \* the last success, whether that success revived it,
                    \* and the selections of other endpoints made since it
                    \* was revived (-1: it is not waited for, -2: the
                    \* specification keeps no such history)
    last_call       \* history: the record_success, record_failure or
                    \* health_status call made by the latest step, with
                    \* what it returned ("off": the specification keeps no
                    \* such history)

rpc_vars == <<endpoints, current_index, now, readers, idx_owner, pc, arg,
              last_ret, sel_left, sel_log, reports, last_call>>

VARIABLES
    pool_graph,     \* PoolGraph: graph (nodes, edges) and token_to_node
    g_ret,          \* history: the latest PoolGraph call and what it returned
    sim_in,         \* the (route, amount_in) RouteOptimizer is called with
    sim_out,        \* what calculate_output_amount returned for sim_in
    sim_prev,       \* history: the amount and the result of the call before
    build_checks,   \* whether the running build has overflow checks
    best_in,        \* the (routes, amount_in) find_best_route is called with
    best_out        \* what find_best_route returned for best_in

sim_vars == <<sim_in, sim_out, sim_prev, build_checks, best_in, best_out>>

router_vars == <<pool_graph, g_ret, sim_vars>>

vars == <<rpc_vars, router_vars>>

(***************************************************************************)
(* u32 counters.  A value up to 2^31 - 1 is written as itself; a value     *)
(* above is written as the negative integer congruent to it modulo 2^32    *)
(* (its bit pattern read as an i32), so that u32::MAX is -1 and            *)
(* u32::MAX + 1 wraps to 0.                                                *)
(***************************************************************************)
u32_MAX == -1

\* x >= y between two u32 values
u32_ge(x, y) ==
    IF (x < 0) = (y < 0) THEN x >= y ELSE x < 0

(***************************************************************************)
(* EndpointHealth                                                          *)
(***************************************************************************)
EndpointHealth_new(url, t) ==
    [url |-> url, request_count |-> 0, last_reset |-> t,
     consecutive_failures |-> 0, is_healthy |-> TRUE]

elapsed(e, t) == t - e.last_reset

\* mutant of should_throttle: the cap compared with > instead of >=
should_throttle_gt(e, t) ==
    IF elapsed(e, t) > WINDOW_SECS
    THEN FALSE
    ELSE e.request_count > MAX_REQUESTS_PER_SECOND

should_throttle(e, t) ==
    IF elapsed(e, t) > WINDOW_SECS
    THEN FALSE
    ELSE e.request_count >= MAX_REQUESTS_PER_SECOND

record_request(e, t) ==
    LET r == IF elapsed(e, t) > WINDOW_SECS
             THEN [e EXCEPT !.request_count = 0, !.last_reset = t]
             ELSE e
    IN  [r EXCEPT !.request_count = @ + 1]

\* mutant of record_failure: the threshold compared with > instead of >=
record_failure_gt(e) ==
    IF e.consecutive_failures = u32_MAX /\ build_checks
    THEN e
    ELSE LET r == [e EXCEPT !.consecutive_failures = @ + 1]
         IN  IF u32_ge(r.consecutive_failures, UNHEALTHY_AFTER + 1)
             THEN [r EXCEPT !.is_healthy = FALSE]
             ELSE r

\* `self.consecutive_failures += 1` on a u32: at u32::MAX a build with
\* overflow checks panics before anything is stored, and one without wraps
\* the counter to 0
record_failure(e) ==
    IF e.consecutive_failures = u32_MAX /\ build_checks
    THEN e
    ELSE LET r == [e EXCEPT !.consecutive_failures = @ + 1]
         IN  IF u32_ge(r.consecutive_failures, UNHEALTHY_AFTER)
             THEN [r EXCEPT !.is_healthy = FALSE]
             ELSE r

record_success(e) ==
    LET r == [e EXCEPT !.consecutive_failures = 0]
    IN  IF ~r.is_healthy THEN [r EXCEPT !.is_healthy = TRUE] ELSE r

(***************************************************************************)
(* RpcManager                                                              *)
(***************************************************************************)
total == Cardinality(DOMAIN endpoints)

\* RpcManager::new: one endpoint per key, in order, then the fallbacks
new_urls(keys) == [i \in 1..Len(keys) |-> HeliusUrl(keys[i])] \o FALLBACK_ENDPOINTS

RpcManager_new(keys, t) ==
    LET urls == new_urls(keys)
    IN  [i \in 0..(Len(urls) - 1) |-> EndpointHealth_new(urls[i + 1], t)]

\* mutant of qualifies: the health flag is not consulted
qualifies_any_health(e, t) == ~should_throttle(e, t)

\* line 107: endpoint.is_healthy && !endpoint.should_throttle()
qualifies(e, t) == e.is_healthy /\ ~should_throttle(e, t)

\* mutant of index_after_select: the cursor is advanced without wrapping
index_no_wrap(cur, n) == cur + 1

\* mutant of index_after_select: the cursor stays on the selected endpoint
index_stays(cur, n) == cur

\* line 112: *current_idx = (*current_idx + 1) % total
index_after_select(cur, n) == (cur + 1) % n

\* The loop of get_client, run with both guards held.  cur is *current_idx,
\* start is start_idx, n counts the candidates examined so far.
\* mutant of back_at_start: the loop gives up at the end of the vector
back_at_zero(idx, start) == idx = 0

\* line 127: *current_idx == start_idx
back_at_start(idx, start) == idx = start

RECURSIVE scan(_, _, _, _, _)
scan(eps, cur, start, t, n) ==
    IF qualifies(eps[cur], t)
    THEN [ok |-> TRUE, selected_idx |-> cur,
          index |-> index_after_select(cur, Cardinality(DOMAIN eps)),
          examined |-> n + 1]
    ELSE LET nxt == (cur + 1) % Cardinality(DOMAIN eps)
         IN  IF back_at_start(nxt, start)
             THEN [ok |-> FALSE, selected_idx |-> cur,
                   index |-> nxt, examined |-> n + 1]
             ELSE scan(eps, nxt, start, t, n + 1)

\* mutant of find_url: a url matching no endpoint finds the first one
find_url_or_first(eps, url) ==
    LET hits == {i \in DOMAIN eps : eps[i].url = url}
    IN  IF hits = {} THEN 0
        ELSE CHOOSE i \in hits : \A j \in hits : i <= j

\* endpoints.iter_mut().find(|e| e.url == endpoint_url)
find_url(eps, url) ==
    LET hits == {i \in DOMAIN eps : eps[i].url = url}
    IN  IF hits = {} THEN -1
        ELSE CHOOSE i \in hits : \A j \in hits : i <= j

\* health_status(): (url, is_healthy, request_count) per endpoint, in order
health_status(eps) ==
    [i \in 1..Cardinality(DOMAIN eps) |->
        <<eps[i - 1].url, eps[i - 1].is_healthy, eps[i - 1].request_count>>]

(***************************************************************************)
(* PoolEdge and its weight (pool_graph.rs)                                 *)
(*                                                                         *)
(* An f64 cost is kept exactly: a finite cost is pn/pd + fee/10000 in      *)
(* lowest terms (big = 0); big = 1 is f64::MAX, which absorbs every finite *)
(* weight added to it; big = 2 is +inf, the sum of two f64::MAX.           *)
(***************************************************************************)
RECURSIVE Gcd(_, _)
Gcd(a, b) == IF b = 0 THEN a ELSE Gcd(b, a % b)

f64_zero == [big |-> 0, pn |-> 0, pd |-> 1, fee |-> 0]
f64_MAX == [big |-> 1, pn |-> 0, pd |-> 1, fee |-> 0]
f64_inf == [big |-> 2, pn |-> 0, pd |-> 1, fee |-> 0]

f64_finite(pn, pd, fee) ==
    LET d == Gcd(pn, pd)
    IN  [big |-> 0, pn |-> pn \div d, pd |-> pd \div d, fee |-> fee]

f64_add(c, w) ==
    IF c.big + w.big >= 2 THEN f64_inf
    ELSE IF c.big + w.big = 1 THEN f64_MAX
    ELSE f64_finite(c.pn * w.pd + w.pn * c.pd, c.pd * w.pd, c.fee + w.fee)

\* c1 <= c2
f64_le(c1, c2) ==
    IF c1.big # c2.big THEN c1.big < c2.big
    ELSE IF c1.big > 0 THEN TRUE
    ELSE WEIGHT_FEE_SCALE * c1.pn * c2.pd + c1.fee * c1.pd * c2.pd
           <= WEIGHT_FEE_SCALE * c2.pn * c1.pd + c2.fee * c1.pd * c2.pd

PoolEdge(pool_address, dex_type, token_a, token_b, reserve_a, reserve_b, fee_bps) ==
    [pool_address |-> pool_address, dex_type |-> dex_type,
     token_a |-> token_a, token_b |-> token_b,
     reserve_a |-> reserve_a, reserve_b |-> reserve_b, fee_bps |-> fee_bps]

\* (reserve_in, reserve_out) for a hop entering the pool with from_token
reserves_from(edge, from_token) ==
    IF from_token = edge.token_a
    THEN <<edge.reserve_a, edge.reserve_b>>
    ELSE <<edge.reserve_b, edge.reserve_a>>

calculate_weight(edge, from_token, amount_in) ==
    IF amount_in = 0 THEN f64_zero
    ELSE LET reserve_in == reserves_from(edge, from_token)[1]
         IN  IF reserve_in = 0 THEN f64_MAX
             ELSE f64_finite(amount_in, reserve_in + amount_in, edge.fee_bps)

(***************************************************************************)
(* PoolGraph.  Node and edge indices are positions in `nodes` and `edges`  *)
(* (petgraph counts them from 0, the sequences here from 1).               *)
(***************************************************************************)
PoolGraph_new == [nodes |-> <<>>, edges |-> <<>>, token_to_node |-> <<>>]

get_or_create_node(g, token) ==
    IF token \in DOMAIN g.token_to_node
    THEN [graph |-> g, idx |-> g.token_to_node[token]]
    ELSE LET idx == Len(g.nodes) + 1
         IN  [graph |-> [g EXCEPT !.nodes = Append(@, token),
                                  !.token_to_node = (token :> idx) @@ @],
              idx |-> idx]

\* mutant of add_pool: only the edge token_a -> token_b is inserted
add_pool_one_way(g, pool_address, token_a, token_b, reserve_a, reserve_b, dex_type, fee_bps) ==
    LET a == get_or_create_node(g, token_a)
        b == get_or_create_node(a.graph, token_b)
        edge == PoolEdge(pool_address, dex_type, token_a, token_b,
                         reserve_a, reserve_b, fee_bps)
    IN  [b.graph EXCEPT !.edges =
            @ \o << [source |-> a.idx, target |-> b.idx, weight |-> edge],
                    [source |-> a.idx, target |-> b.idx, weight |-> edge] >>]

add_pool(g, pool_address, token_a, token_b, reserve_a, reserve_b, dex_type, fee_bps) ==
    LET a == get_or_create_node(g, token_a)
        b == get_or_create_node(a.graph, token_b)
        edge == PoolEdge(pool_address, dex_type, token_a, token_b,
                         reserve_a, reserve_b, fee_bps)
    IN  [b.graph EXCEPT !.edges =
            @ \o << [source |-> a.idx, target |-> b.idx, weight |-> edge],
                    [source |-> b.idx, target |-> a.idx, weight |-> edge] >>]

\* path_tracker.reconstruct_path_to(last): follow the predecessors back
RECURSIVE reconstruct_path_to(_, _)
reconstruct_path_to(pred, n) ==
    IF n \in DOMAIN pred
    THEN Append(reconstruct_path_to(pred, pred[n]), n)
    ELSE <<n>>

\* the edge loop of astar for the popped `node`: graph.edges(node) yields
\* the outgoing edges newest first, so the edges i, i-1, .., 1 are relaxed
\* in that order; a neighbour's score and predecessor change only on a
\* strict improvement
RECURSIVE relax(_, _, _, _, _, _)
relax(g, amount_in, node, node_score, i, st) ==
    IF i = 0 THEN st
    ELSE IF g.edges[i].source # node
    THEN relax(g, amount_in, node, node_score, i - 1, st)
    ELSE LET e == g.edges[i]
             next == e.target
             next_score == f64_add(node_score,
                              calculate_weight(e.weight, g.nodes[e.source],
                                               amount_in))
         IN  IF next \in DOMAIN st.scores /\ f64_le(st.scores[next], next_score)
             THEN relax(g, amount_in, node, node_score, i - 1, st)
             ELSE relax(g, amount_in, node, node_score, i - 1,
                        [st EXCEPT
                           !.scores = (next :> next_score) @@ @,
                           !.pred = (next :> node) @@ @,
                           !.visit_next = @ \cup {[score |-> next_score,
                                                   node |-> next]}])

\* the main loop of astar with the zero heuristic.  The binary heap pops an
\* entry of least score; which of several entries of equal score comes first
\* is not fixed, so the loop yields the set of paths it may return (<<>> for
\* None).
RECURSIVE astar_loop(_, _, _, _)
astar_loop(g, goal, amount_in, st) ==
    IF st.visit_next = {} THEN {<<>>}
    ELSE LET least == {h \in st.visit_next :
                         \A k \in st.visit_next : f64_le(h.score, k.score)}
         IN  UNION {
               LET rest == [st EXCEPT !.visit_next = @ \ {h}]
               IN  IF h.node = goal
                   THEN {reconstruct_path_to(st.pred, h.node)}
                   ELSE IF /\ h.node \in DOMAIN st.estimate_scores
                           /\ f64_le(st.estimate_scores[h.node], h.score)
                   THEN astar_loop(g, goal, amount_in, rest)
                   ELSE astar_loop(g, goal, amount_in,
                          relax(g, amount_in, h.node, st.scores[h.node],
                                Len(g.edges),
                                [rest EXCEPT !.estimate_scores =
                                                (h.node :> h.score) @@ @]))
               : h \in least }

astar(g, start, goal, amount_in) ==
    astar_loop(g, goal, amount_in,
               [scores |-> (start :> f64_zero), pred |-> <<>>,
                estimate_scores |-> <<>>,
                visit_next |-> {[score |-> f64_zero, node |-> start]}])

\* mutant of find_edge: the oldest edge u -> v instead of the newest
find_edge_oldest(g, u, v) ==
    LET hits == {i \in 1..Len(g.edges) :
                    g.edges[i].source = u /\ g.edges[i].target = v}
    IN  IF hits = {} THEN 0
        ELSE CHOOSE i \in hits : \A j \in hits : i <= j

\* graph.find_edge(u, v): the first edge to v in u's outgoing list, which
\* petgraph keeps newest first; 0 stands for None
find_edge(g, u, v) ==
    LET hits == {i \in 1..Len(g.edges) :
                    g.edges[i].source = u /\ g.edges[i].target = v}
    IN  IF hits = {} THEN 0
        ELSE CHOOSE i \in hits : \A j \in hits : i >= j

\* lines 135-148: the route rebuilt from the node path
route_of(g, path) ==
    IF path = <<>>
    THEN [kind |-> "No route found", route |-> <<>>]
    ELSE IF \E i \in 1..(Len(path) - 1) : find_edge(g, path[i], path[i + 1]) = 0
    THEN [kind |-> "Edge lost in path", route |-> <<>>]
    ELSE [kind |-> "Ok",
          route |-> [i \in 1..(Len(path) - 1) |->
                       <<g.nodes[path[i]],
                         g.edges[find_edge(g, path[i], path[i + 1])].weight>>]]

\* mutant of find_route: a destination without a node is reported as an
\* unreachable one
find_route_end_unchecked(g, from_token, to_token, amount_in) ==
    IF from_token \notin DOMAIN g.token_to_node
    THEN {[kind |-> "Start token not in graph", route |-> <<>>]}
    ELSE IF to_token \notin DOMAIN g.token_to_node
    THEN {[kind |-> "No route found", route |-> <<>>]}
    ELSE {route_of(g, path) :
            path \in astar(g, g.token_to_node[from_token],
                           g.token_to_node[to_token], amount_in)}

\* the results find_route may return
find_route(g, from_token, to_token, amount_in) ==
    IF from_token \notin DOMAIN g.token_to_node
    THEN {[kind |-> "Start token not in graph", route |-> <<>>]}
    ELSE IF to_token \notin DOMAIN g.token_to_node
    THEN {[kind |-> "End token not in graph", route |-> <<>>]}
    ELSE {route_of(g, path) :
            path \in astar(g, g.token_to_node[from_token],
                           g.token_to_node[to_token], amount_in)}

\* mutant of update_reserves: the loop stops at the first matching edge
update_reserves_first_only(g, pool_address, reserve_a, reserve_b) ==
    LET hits == {i \in 1..Len(g.edges) :
                    g.edges[i].weight.pool_address = pool_address}
    IN  [found |-> hits # {},
         graph |-> [g EXCEPT !.edges =
            [i \in 1..Len(g.edges) |->
               IF i \in hits /\ \A j \in hits : i <= j
               THEN [g.edges[i] EXCEPT !.weight.reserve_a = reserve_a,
                                       !.weight.reserve_b = reserve_b]
               ELSE g.edges[i]]]]

update_reserves(g, pool_address, reserve_a, reserve_b) ==
    [found |-> \E i \in 1..Len(g.edges) :
                  g.edges[i].weight.pool_address = pool_address,
     graph |-> [g EXCEPT !.edges =
        [i \in 1..Len(g.edges) |->
           IF g.edges[i].weight.pool_address = pool_address
           THEN [g.edges[i] EXCEPT !.weight.reserve_a = reserve_a,
                                   !.weight.reserve_b = reserve_b]
           ELSE g.edges[i]]]]

(***************************************************************************)
(* RouteOptimizer (route_optimizer.rs)                                     *)
(***************************************************************************)
\* (a * b) / d as the u128 arithmetic of calculate_output_amount gives it:
\* the product is never formed here, because it does not fit the integers of
\* the model checker; a * b = q * d + r is built by halving b.
\* u128 arithmetic on values whose products exceed the integers of the
\* model checker: floor(a * b / d) by binary long multiplication of
\* quotient-remainder pairs, from the top bit of b down, so that no
\* intermediate value exceeds the result or d.
add_mod(x, y, d) ==
    IF x.r >= d - y
    THEN [q |-> x.q + 1, r |-> x.r - (d - y)]
    ELSE [q |-> x.q, r |-> x.r + y]

\* from (q, r) = divmod(a * n, d) to divmod(a * (2 * n + bit), d)
mul_div_step(x, a, bit, d) ==
    LET twice == add_mod([q |-> 2 * x.q, r |-> x.r], x.r, d)
    IN  IF bit = 1
        THEN add_mod([q |-> twice.q + (a \div d), r |-> twice.r], a % d, d)
        ELSE twice

\* floor(a * b / d) for 0 <= a, b < 2^31 and d > 0
mul_div(a, b, d) ==
    LET f[t \in Nat \X Nat \X Nat] ==
          IF t[3] = 0 THEN t[1]
          ELSE LET bit == (b \div (2 ^ (t[3] - 1))) % 2
                   x == mul_div_step([q |-> t[1], r |-> t[2]], a, bit, d)
               IN  f[<<x.q, x.r, t[3] - 1>>]
    IN  f[<<0, 0, 31>>]

\* mutant of output_from: the fee is not deducted
RECURSIVE output_from_no_fee(_, _, _, _)
output_from_no_fee(route, i, current_amount, overflow_checks) ==
    IF i > Len(route) THEN [kind |-> "ok", amount |-> current_amount]
    ELSE LET from_token == route[i][1]
             pool == route[i][2]
             reserve_in == reserves_from(pool, from_token)[1]
             reserve_out == reserves_from(pool, from_token)[2]
         IN  IF reserve_in = 0 \/ reserve_out = 0
             THEN [kind |-> "ok", amount |-> 0]
             ELSE IF pool.fee_bps > FEE_SCALE
             THEN IF overflow_checks
                  THEN [kind |-> "panic", amount |-> 0]
                  ELSE IF current_amount = 0
                  THEN output_from_no_fee(route, i + 1, 0, overflow_checks)
                  ELSE IF reserve_out <= FEE_SCALE
                  THEN output_from_no_fee(route, i + 1, reserve_out - 1,
                                   overflow_checks)
                  ELSE [kind |-> "wrapped", amount |-> 0]
             ELSE LET amount_after_fee ==
                        current_amount
                      denominator == reserve_in + amount_after_fee
                  IN  output_from_no_fee(route, i + 1,
                                  mul_div(amount_after_fee, reserve_out,
                                          denominator),
                                  overflow_checks)


\* The loop of calculate_output_amount from hop i on.  `10000 - fee_bps` is
\* a u128 subtraction.  With fee_bps = 10000 + k, k > 0, it underflows:
\*  - where overflow checks are compiled in, the call panics;
\*  - where they are not, the difference wraps to 2^128 - k, the product
\*    with current_amount c > 0 wraps to 2^128 - k*c, amount_after_fee is
\*    H = (2^128 - k*c) / 10000, and as long as H * reserve_out < 2^128
\*    (reserve_out <= 10000) and reserve_in * reserve_out < H the quotient
\*    H * reserve_out / (reserve_in + H) is reserve_out - 1; with c = 0 the
\*    product is 0 and the hop yields 0.  Beyond reserve_out <= 10000 the
\*    second product wraps too and the value leaves the integers of this
\*    model ("wrapped").
RECURSIVE output_from(_, _, _, _)
output_from(route, i, current_amount, overflow_checks) ==
    IF i > Len(route) THEN [kind |-> "ok", amount |-> current_amount]
    ELSE LET from_token == route[i][1]
             pool == route[i][2]
             reserve_in == reserves_from(pool, from_token)[1]
             reserve_out == reserves_from(pool, from_token)[2]
         IN  IF reserve_in = 0 \/ reserve_out = 0
             THEN [kind |-> "ok", amount |-> 0]
             ELSE IF pool.fee_bps > FEE_SCALE
             THEN IF overflow_checks
                  THEN [kind |-> "panic", amount |-> 0]
                  ELSE IF current_amount = 0
                  THEN output_from(route, i + 1, 0, overflow_checks)
                  ELSE IF reserve_out <= FEE_SCALE
                  THEN output_from(route, i + 1, reserve_out - 1,
                                   overflow_checks)
                  ELSE [kind |-> "wrapped", amount |-> 0]
             ELSE LET amount_after_fee ==
                        mul_div(current_amount, FEE_SCALE - pool.fee_bps,
                                FEE_SCALE)
                      denominator == reserve_in + amount_after_fee
                  IN  output_from(route, i + 1,
                                  mul_div(amount_after_fee, reserve_out,
                                          denominator),
                                  overflow_checks)

\* overflow_checks tells which build runs the call
calculate_output_amount(route, amount_in, overflow_checks) ==
    output_from(route, 1, amount_in, overflow_checks)

\* The loop of find_best_route from route i on; best_index is -1 for None.
\* A call of calculate_output_amount that panics takes the whole call with
\* it.  Indices are those of the Vec, from 0.
RECURSIVE best_from(_, _, _, _, _, _)
best_from(routes, i, best_index, max_output, amount_in, overflow_checks) ==
    IF i > Len(routes)
    THEN IF best_index = -1
         THEN [kind |-> "None", index |-> 0, output |-> 0]
         ELSE [kind |-> "Some", index |-> best_index, output |-> max_output]
    ELSE LET output == calculate_output_amount(routes[i], amount_in,
                                               overflow_checks)
         IN  IF output.kind # "ok"
             THEN [kind |-> output.kind, index |-> 0, output |-> 0]
             ELSE IF output.amount > max_output
             THEN best_from(routes, i + 1, i - 1, output.amount, amount_in,
                            overflow_checks)
             ELSE best_from(routes, i + 1, best_index, max_output, amount_in,
                            overflow_checks)

find_best_route(routes, amount_in, overflow_checks) ==
    best_from(routes, 1, -1, 0, amount_in, overflow_checks)

NoRet == [kind |-> "none", idx |-> -1]
NoArg == [selected_idx |-> -1, examined |-> 0]
NoCall == [op |-> "none", args |-> <<>>, kind |-> "", route |-> <<>>]
NoSim == [route |-> <<>>, amount_in |-> 0]
NoOut == [kind |-> "none", amount |-> 0]
NoPrev == [amount_in |-> 0, out |-> NoOut]
NoBest == [kind |-> "pending", index |-> 0, output |-> 0]
NoLog == [op |-> "none", url |-> "", view |-> <<>>]
LogOff == [op |-> "off", url |-> "", view |-> <<>>]

\* the history of calls after a step that logs `entry`
logged(c, entry) == IF c.op = "off" THEN c ELSE entry

\* RouteOptimizer::new() and no call made yet, in a build with overflow checks
OptimizerIdle ==
    /\ sim_in = NoSim
    /\ sim_out = NoOut
    /\ sim_prev = NoPrev
    /\ build_checks = TRUE
    /\ best_in = [routes |-> <<>>, amount_in |-> 0]
    /\ best_out = NoBest

\* PoolGraph::new(), RouteOptimizer::new() and no call made yet
RouterIdle ==
    /\ pool_graph = PoolGraph_new
    /\ g_ret = NoCall
    /\ OptimizerIdle

\* routes handed to calculate_output_amount: up to MaxHops hops over pools
\* of SOL/USDC with these reserves and fees, entered from either side
MaxHops == 2
SimReservePairs == {<<0, 1000>>, <<3, 1000>>, <<1000, 1000>>}
SimFees == {0, 30, 10000, 10001}
SimAmounts == {0, 1, 1000, 100000}
SimHops ==
    {<<t, PoolEdge("pool1", "RaydiumV4", "SOL", "USDC", rs[1], rs[2], fee)>> :
        t \in {"SOL", "USDC"}, rs \in SimReservePairs, fee \in SimFees}
SimRoutes == UNION {[1..n -> SimHops] : n \in 0..MaxHops}
SimInputs == [route : SimRoutes, amount_in : SimAmounts]

\* The manager right after RpcManager::new(keys) at time 0, shared by nt
\* tasks, or that manager after `warm` full round-robin rounds issued inside
\* the construction second: every endpoint then carries `warm` requests and
\* the cursor is back at 0.
InitWatching(nt, keylists, warms, watched, calls_logged) ==
    /\ \E keys \in keylists, warm \in warms :
         endpoints = [i \in DOMAIN RpcManager_new(keys, 0) |->
                        [RpcManager_new(keys, 0)[i] EXCEPT !.request_count = warm]]
    /\ current_index = 0
    /\ now = 0
    /\ readers = {}
    /\ idx_owner = {}
    /\ pc = [t \in 1..nt |-> "idle"]
    /\ arg = [t \in 1..nt |-> NoArg]
    /\ last_ret = NoRet
    /\ sel_left = MaxSelects
    /\ sel_log = <<>>
    /\ reports = [u \in {endpoints[i].url : i \in DOMAIN endpoints} |->
                    [fails |-> 0, revived |-> FALSE,
                     since |-> IF watched THEN -1 ELSE -2]]
    /\ last_call = IF calls_logged THEN NoLog ELSE LogOff

InitWith(nt, keylists, warms) ==
    InitWatching(nt, keylists, warms, FALSE, FALSE)

Tasks == DOMAIN pc

\* the clock advances; nothing else changes
Tick ==
    /\ now < MaxTime
    /\ now' = now + 1
    /\ UNCHANGED <<endpoints, current_index, readers, idx_owner, pc, arg,
                   last_ret, sel_left, sel_log, reports>>
    /\ last_call' = logged(last_call, NoLog)
    /\ UNCHANGED router_vars

\* ---- get_client -------------------------------------------------------
\* line 97: the call starts with self.endpoints.read().  Writers hold the
\* lock only inside one atomic step, so the read guard is granted at once.
GcAcquireRead(t) ==
    /\ pc[t] = "idle"
    /\ sel_left > 0
    /\ sel_left' = sel_left - 1
    /\ readers' = readers \cup {t}
    /\ pc' = [pc EXCEPT ![t] = "gc_index"]
    /\ UNCHANGED <<endpoints, current_index, now, idx_owner, arg, last_ret,
                   sel_log, reports>>
    /\ last_call' = logged(last_call, NoLog)
    /\ UNCHANGED router_vars

\* line 98: self.current_index.write()
GcAcquireIndex(t) ==
    /\ pc[t] = "gc_index"
    /\ idx_owner = {}
    /\ idx_owner' = {t}
    /\ pc' = [pc EXCEPT ![t] = "gc_scan"]
    /\ UNCHANGED <<endpoints, current_index, now, readers, arg, last_ret,
                   sel_left, sel_log, reports>>
    /\ last_call' = logged(last_call, NoLog)
    /\ UNCHANGED router_vars

\* mutant of drop_guard: the guard is still held after the loop
guard_kept(holders, t) == holders

\* lines 114-115 (and the end of the scope on bail!): the task's guard on
\* a lock is dropped
drop_guard(holders, t) == holders \ {t}

AllQualify(eps, t) == \A i \in DOMAIN eps : qualifies(eps[i], t)

\* history kept for the round-robin property: the last total+1 selections
\* of the current run of selections that found every endpoint qualifying
log_append(log, e, n) ==
    IF Len(log) > n THEN Tail(log) \o <<e>> ELSE log \o <<e>>

\* history of the revived endpoints once a scan has ended with result r:
\* a revived endpoint is waited for until it is selected, found throttled
\* or marked unhealthy again
reports_after_scan(rep, eps, t, r) ==
    [u \in DOMAIN rep |->
        IF rep[u].since < 0 THEN rep[u]
        ELSE IF r.ok /\ r.selected_idx = find_url(eps, u)
        THEN [rep[u] EXCEPT !.since = -1]
        ELSE IF should_throttle(eps[find_url(eps, u)], t)
        THEN [rep[u] EXCEPT !.since = -1]
        ELSE IF r.ok THEN [rep[u] EXCEPT !.since = @ + 1]
        ELSE rep[u]]

\* lines 100-130: the scan loop; both guards are dropped on either exit
GcScan(t) ==
    /\ pc[t] = "gc_scan"
    /\ LET r == scan(endpoints, current_index, current_index, now, 0)
       IN  /\ current_index' = r.index
           /\ readers' = drop_guard(readers, t)
           /\ idx_owner' = drop_guard(idx_owner, t)
           /\ IF r.ok
              THEN /\ pc' = [pc EXCEPT ![t] = "gc_record"]
                   /\ arg' = [arg EXCEPT ![t] =
                                [selected_idx |-> r.selected_idx,
                                 examined |-> r.examined]]
                   /\ last_ret' = last_ret
                   /\ sel_log' =
                        IF AllQualify(endpoints, now)
                        THEN log_append(sel_log,
                                        [idx |-> r.selected_idx,
                                         start |-> current_index], total)
                        ELSE <<>>
              ELSE \* line 128: bail!
                   /\ pc' = [pc EXCEPT ![t] = "idle"]
                   /\ arg' = [arg EXCEPT ![t] = NoArg]
                   /\ last_ret' = [kind |-> "err", idx |-> -1]
                   /\ sel_log' = <<>>
           /\ reports' = reports_after_scan(reports, endpoints, now, r)
    /\ UNCHANGED <<endpoints, now, sel_left>>
    /\ last_call' = logged(last_call, NoLog)
    /\ UNCHANGED router_vars

\* line 118: self.endpoints.write()[selected_idx].record_request(), then
\* line 120: return Ok(RpcClient::new(url))
GcRecord(t) ==
    /\ pc[t] = "gc_record"
    /\ readers = {}
    /\ endpoints' = [endpoints EXCEPT
                       ![arg[t].selected_idx] = record_request(@, now)]
    /\ pc' = [pc EXCEPT ![t] = "idle"]
    /\ last_ret' = [kind |-> "ok", idx |-> arg[t].selected_idx]
    /\ arg' = [arg EXCEPT ![t] = NoArg]
    /\ UNCHANGED <<current_index, now, readers, idx_owner, sel_left, sel_log,
                   reports>>
    /\ last_call' = logged(last_call, NoLog)
    /\ UNCHANGED router_vars

Urls == {endpoints[i].url : i \in DOMAIN endpoints} \cup {UnknownUrl}

\* ---- record_success / record_failure ----------------------------------
\* lines 134-139: the write guard is taken, used and dropped in one step
RecordSuccess(t, url) ==
    /\ pc[t] = "idle"
    /\ readers = {}
    /\ LET i == find_url(endpoints, url)
       IN  endpoints' = IF i = -1 THEN endpoints
                        ELSE [endpoints EXCEPT ![i] = record_success(@)]
    /\ reports' = IF url \in DOMAIN reports
                  THEN [reports EXCEPT ![url] =
                          [fails |-> 0, revived |-> @.fails >= 5,
                           since |-> IF @.fails >= 5 /\ @.since > -2
                                     THEN 0 ELSE @.since]]
                  ELSE reports
    /\ UNCHANGED <<current_index, now, readers, idx_owner, pc, arg, last_ret,
                   sel_left, sel_log>>
    /\ last_call' = logged(last_call, [op |-> "record_success", url |-> url,
                                        view |-> <<>>])
    /\ UNCHANGED router_vars

\* the increment of record_failure overflows for this url in a build with
\* overflow checks
FailurePanics(url) ==
    /\ build_checks
    /\ find_url(endpoints, url) # -1
    /\ endpoints[find_url(endpoints, url)].consecutive_failures = u32_MAX

\* lines 142-147.  A call that panics stores nothing and ends its task.
RecordFailure(t, url) ==
    /\ pc[t] = "idle"
    /\ readers = {}
    /\ LET i == find_url(endpoints, url)
       IN  /\ i # -1 => endpoints[i].consecutive_failures < MaxFailures
           /\ endpoints' = IF i = -1 THEN endpoints
                           ELSE [endpoints EXCEPT ![i] = record_failure(@)]
    /\ pc' = IF FailurePanics(url) THEN [pc EXCEPT ![t] = "panicked"] ELSE pc
    /\ reports' = IF url \in DOMAIN reports /\ ~FailurePanics(url)
                  THEN [reports EXCEPT ![url] =
                          [fails |-> @.fails + 1, revived |-> FALSE,
                           since |-> IF @.fails + 1 >= 5 /\ @.since > -2
                                     THEN -1 ELSE @.since]]
                  ELSE reports
    /\ UNCHANGED <<current_index, now, readers, idx_owner, arg, last_ret,
                   sel_left, sel_log>>
    /\ last_call' = logged(last_call, [op |-> "record_failure", url |-> url,
                                        view |-> <<>>])
    /\ UNCHANGED router_vars

\* lines 150-156: a read guard taken and dropped in one step
HealthStatus(t) ==
    /\ pc[t] = "idle"
    /\ last_call' = logged(last_call, [op |-> "health_status", url |-> "",
                                        view |-> health_status(endpoints)])
    /\ UNCHANGED <<endpoints, current_index, now, readers, idx_owner, pc, arg,
                   last_ret, sel_left, sel_log, reports>>
    /\ UNCHANGED router_vars

RpcNext ==
    \/ Tick
    \/ \E t \in Tasks : GcAcquireRead(t)
    \/ \E t \in Tasks : GcAcquireIndex(t)
    \/ \E t \in Tasks : GcScan(t)
    \/ \E t \in Tasks : GcRecord(t)
    \/ \E t \in Tasks, url \in Urls : RecordSuccess(t, url)
    \/ \E t \in Tasks, url \in Urls : RecordFailure(t, url)
    \/ \E t \in Tasks : HealthStatus(t)

\* one caller: every call runs to completion before the next one starts
Init ==
    /\ InitWith(1, KeyLists, {0, MAX_REQUESTS_PER_SECOND - Headroom})
    /\ RouterIdle
Spec == Init /\ [][RpcNext]_vars

\* NumTasks callers sharing the manager
ConcInit ==
    /\ InitWith(NumTasks, {<<>>}, {MAX_REQUESTS_PER_SECOND - Headroom})
    /\ RouterIdle
ConcSpec == ConcInit /\ [][RpcNext]_vars

\* ConcSpec under fair scheduling: a task that can run its loop does so,
\* and parking_lot's task-fair RwLock starves no task waiting for a guard
\* that is free again and again
Fairness ==
    \A t \in 1..NumTasks :
        /\ SF_vars(GcAcquireIndex(t))
        /\ WF_vars(GcScan(t))
        /\ SF_vars(GcRecord(t))
FairSpec == ConcInit /\ [][RpcNext]_vars /\ Fairness

\* one caller, with the history of revived endpoints kept; every endpoint
\* starts close to the cap of the construction window
RevivalInit ==
    /\ InitWatching(1, KeyLists, {MAX_REQUESTS_PER_SECOND - Headroom}, TRUE,
                    FALSE)
    /\ RouterIdle
RevivalSpec == RevivalInit /\ [][RpcNext]_vars

\* one caller of a manager built without credentials whose first endpoint
\* has had u32::MAX - 1 failures reported in a row since construction, in a
\* build with or without overflow checks
WornInit ==
    /\ \E fresh \in {RpcManager_new(<<>>, 0)} :
         endpoints = [fresh EXCEPT ![0].consecutive_failures = u32_MAX - 1,
                                   ![0].is_healthy = FALSE]
    /\ current_index = 0
    /\ now = 0
    /\ readers = {}
    /\ idx_owner = {}
    /\ pc = [t \in {1} |-> "idle"]
    /\ arg = [t \in {1} |-> NoArg]
    /\ last_ret = NoRet
    /\ sel_left = MaxSelects
    /\ sel_log = <<>>
    /\ reports = [u \in {endpoints[i].url : i \in DOMAIN endpoints} |->
                    [fails |-> endpoints[find_url(endpoints, u)].consecutive_failures,
                     revived |-> FALSE, since |-> -2]]
    /\ last_call = LogOff
    /\ pool_graph = PoolGraph_new
    /\ g_ret = NoCall
    /\ sim_in = NoSim
    /\ sim_out = NoOut
    /\ sim_prev = NoPrev
    /\ build_checks \in BOOLEAN
    /\ best_in = [routes |-> <<>>, amount_in |-> 0]
    /\ best_out = NoBest
WornSpec == WornInit /\ [][RpcNext]_vars

\* one caller of a manager built without credentials, with the
\* record_success, record_failure and health_status calls logged
ReportInit ==
    /\ InitWatching(1, {<<>>}, {0, MAX_REQUESTS_PER_SECOND - Headroom},
                    FALSE, TRUE)
    /\ RouterIdle
ReportSpec == ReportInit /\ [][RpcNext]_vars

(***************************************************************************)
(* ScannerBot: the run loop and scan_once, the one caller of the manager   *)
(* it owns.  The bot is task 1; "idle" is the sleep between two scans.     *)
(***************************************************************************)
Bot == 1

\* the url of the handle scan_once holds
HandleUrl == endpoints[arg[Bot].selected_idx].url

\* the clock advances while the bot sleeps, waits or computes
ScanTick ==
    /\ now < MaxTime
    /\ now' = now + 1
    /\ UNCHANGED <<endpoints, current_index, readers, idx_owner, pc, arg,
                   last_ret, sel_left, sel_log, reports, last_call>>
    /\ UNCHANGED router_vars

\* scan_once line 112: self.rpc_manager.get_client()?, the whole call, made
\* by the only task there is.  On Err the `?` ends scan_once, run logs the
\* error (lines 75-77) and sleeps.
ScanGetClient ==
    /\ pc[Bot] = "idle"
    /\ sel_left > 0
    /\ sel_left' = sel_left - 1
    /\ LET r == scan(endpoints, current_index, current_index, now, 0)
       IN  /\ current_index' = r.index
           /\ IF r.ok
              THEN /\ endpoints' = [endpoints EXCEPT
                                      ![r.selected_idx] = record_request(@, now)]
                   /\ pc' = [pc EXCEPT ![Bot] = "scan_fetch"]
                   /\ arg' = [arg EXCEPT ![Bot] =
                                [selected_idx |-> r.selected_idx,
                                 examined |-> r.examined]]
                   /\ last_ret' = [kind |-> "ok", idx |-> r.selected_idx]
                   /\ last_call' = logged(last_call,
                                     [op |-> "get_client",
                                      url |-> endpoints[r.selected_idx].url,
                                      view |-> <<>>])
              ELSE /\ endpoints' = endpoints
                   /\ pc' = pc
                   /\ arg' = arg
                   /\ last_ret' = [kind |-> "err", idx |-> -1]
                   /\ last_call' = logged(last_call, NoLog)
    /\ UNCHANGED <<now, readers, idx_owner, sel_log, reports>>
    /\ UNCHANGED router_vars

\* lines 115-118: the two ledger queries issued with the handle
\* (get_multiple_accounts, raydium.rs:73, and get_account_data, orca.rs:16);
\* each one answers or fails
ScanFetch ==
    /\ pc[Bot] = "scan_fetch"
    /\ \E ray_price_ok \in BOOLEAN, orca_price_ok \in BOOLEAN :
         last_call' = logged(last_call,
                             [op |-> "queries", url |-> HandleUrl,
                              view |-> <<ray_price_ok, orca_price_ok>>])
    /\ pc' = [pc EXCEPT ![Bot] = "scan_return"]
    /\ UNCHANGED <<endpoints, current_index, now, readers, idx_owner, arg,
                   last_ret, sel_left, sel_log, reports>>
    /\ UNCHANGED router_vars

\* lines 121-152: a failed query is replaced by a fallback price, the spread
\* is computed and scan_once returns; run broadcasts (lines 62-72) and sleeps
ScanReturn ==
    /\ pc[Bot] = "scan_return"
    /\ pc' = [pc EXCEPT ![Bot] = "idle"]
    /\ arg' = [arg EXCEPT ![Bot] = NoArg]
    /\ last_call' = logged(last_call, NoLog)
    /\ UNCHANGED <<endpoints, current_index, now, readers, idx_owner,
                   last_ret, sel_left, sel_log, reports>>
    /\ UNCHANGED router_vars

ScanNext == ScanTick \/ ScanGetClient \/ ScanFetch \/ ScanReturn

\* main.rs lines 35-38: RpcManager::new(helius_keys), ScannerBot::new
ScanInit ==
    /\ InitWatching(1, KeyLists, {0, MAX_REQUESTS_PER_SECOND - Headroom},
                    FALSE, TRUE)
    /\ RouterIdle
ScanSpec == ScanInit /\ [][ScanNext]_vars

(***************************************************************************)
(* The pool graph as a state machine: pools are added, reserves updated    *)
(* and routes queried in any order.  g_ret holds the latest call with its  *)
(* arguments and its result.                                               *)
(***************************************************************************)
\* self.graph.edge_count() / 2: the pools added so far
pool_count == Len(pool_graph.edges) \div 2

KnownPools == {PoolInputs[k].pool_address : k \in 1..pool_count}

AddPool ==
    /\ pool_count < Len(PoolInputs)
    /\ \E tk \in TokenPairs, rs \in ReservePairs :
         LET p == PoolInputs[pool_count + 1]
         IN  /\ pool_graph' = add_pool(pool_graph, p.pool_address, tk[1], tk[2],
                                       rs[1], rs[2], p.dex_type, p.fee_bps)
             /\ g_ret' = [op |-> "add_pool",
                          args |-> <<p.pool_address, tk[1], tk[2], rs[1], rs[2]>>,
                          kind |-> "Ok", route |-> <<>>]
    /\ UNCHANGED <<rpc_vars, sim_vars>>

UpdateReserves ==
    /\ \E pool_address \in KnownPools \cup {UnknownPool}, rs \in ReservePairs :
         LET r == update_reserves(pool_graph, pool_address, rs[1], rs[2])
         IN  /\ pool_graph' = r.graph
             /\ g_ret' = [op |-> "update_reserves",
                          args |-> <<pool_address, rs[1], rs[2]>>,
                          kind |-> IF r.found THEN "Ok" ELSE "Pool not found",
                          route |-> <<>>]
    /\ UNCHANGED <<rpc_vars, sim_vars>>

FindRoute ==
    /\ \E from_token \in Tokens, to_token \in Tokens, amount_in \in AmountsIn :
         \E r \in find_route(pool_graph, from_token, to_token, amount_in) :
            g_ret' = [op |-> "find_route",
                      args |-> <<from_token, to_token, amount_in>>,
                      kind |-> r.kind, route |-> r.route]
    /\ UNCHANGED <<rpc_vars, pool_graph, sim_vars>>

GraphNext == AddPool \/ UpdateReserves \/ FindRoute

GraphInit ==
    /\ InitWith(1, {<<>>}, {0})
    /\ RouterIdle
GraphSpec == GraphInit /\ [][GraphNext]_vars

(***************************************************************************)
(* calculate_output_amount applied to routes and amounts drawn from small  *)
(* sets                                                                    *)
(***************************************************************************)
CalculateOutputAmount ==
    /\ sim_out = NoOut
    /\ sim_out' = calculate_output_amount(sim_in.route, sim_in.amount_in,
                                          build_checks)
    /\ UNCHANGED <<rpc_vars, pool_graph, g_ret, sim_in, sim_prev, build_checks,
                   best_in, best_out>>

\* the caller keeps the result and asks again for another amount on the
\* same route
NextAmount ==
    /\ sim_out # NoOut
    /\ sim_prev = NoPrev
    /\ \E amount_in \in SimAmounts :
         sim_in' = [sim_in EXCEPT !.amount_in = amount_in]
    /\ sim_prev' = [amount_in |-> sim_in.amount_in, out |-> sim_out]
    /\ sim_out' = NoOut
    /\ UNCHANGED <<rpc_vars, pool_graph, g_ret, build_checks, best_in, best_out>>

SimNext == CalculateOutputAmount \/ NextAmount

SimInit ==
    /\ InitWith(1, {<<>>}, {0})
    /\ pool_graph = PoolGraph_new
    /\ g_ret = NoCall
    /\ sim_in \in SimInputs
    /\ sim_out = NoOut
    /\ sim_prev = NoPrev
    /\ build_checks \in BOOLEAN
    /\ best_in = [routes |-> <<>>, amount_in |-> 0]
    /\ best_out = NoBest
SimSpec == SimInit /\ [][SimNext]_vars

(***************************************************************************)
(* find_best_route applied to lists of up to MaxRoutes candidate routes    *)
(***************************************************************************)
MaxRoutes == 3
\* single-hop candidates over a SOL/USDC pool: no output, two different
\* outputs, and a pool with a fee above 10000 basis points
BestHops ==
    {<<"SOL", PoolEdge("pool1", "RaydiumV4", "SOL", "USDC", 0, 1000, 30)>>,
     <<"SOL", PoolEdge("pool1", "RaydiumV4", "SOL", "USDC", 1000, 1000, 30)>>,
     <<"SOL", PoolEdge("pool2", "RaydiumV4", "SOL", "USDC", 3, 1000, 30)>>,
     <<"SOL", PoolEdge("pool3", "OrcaWhirlpool", "SOL", "USDC", 3, 1000, 10001)>>}
BestRoutes == {<<h>> : h \in BestHops}
BestAmounts == {0, 1000}
BestInputs ==
    [routes : UNION {[1..n -> BestRoutes] : n \in 0..MaxRoutes},
     amount_in : BestAmounts]

FindBestRoute ==
    /\ best_out = NoBest
    /\ best_out' = find_best_route(best_in.routes, best_in.amount_in,
                                   build_checks)
    /\ UNCHANGED <<rpc_vars, pool_graph, g_ret, sim_in, sim_out, sim_prev,
                   build_checks, best_in>>

BestNext == FindBestRoute

BestInit ==
    /\ InitWith(1, {<<>>}, {0})
    /\ pool_graph = PoolGraph_new
    /\ g_ret = NoCall
    /\ sim_in = NoSim
    /\ sim_out = NoOut
    /\ sim_prev = NoPrev
    /\ build_checks \in BOOLEAN
    /\ best_in \in BestInputs
    /\ best_out = NoBest
BestSpec == BestInit /\ [][BestNext]_vars


(***************************************************************************)
(* The scenario of test_routing: the two pools of the test are added, a    *)
(* route is asked for and the route returned is simulated.                 *)
(***************************************************************************)
\* pool_graph.rs lines 183-202
TestPools ==
    { [pool_address |-> "pool1", token_a |-> "SOL", token_b |-> "USDC",
       reserve_a |-> 1000000000, reserve_b |-> 150000000,
       dex_type |-> "RaydiumV4", fee_bps |-> 30],
      [pool_address |-> "pool2", token_a |-> "USDC", token_b |-> "USDT",
       reserve_a |-> 1000000000, reserve_b |-> 1000000000,
       dex_type |-> "RaydiumV4", fee_bps |-> 1] }
\* line 204 asks for 10_000_000
TestAmounts == {0, 10000000}

PoolsOf(g) == {g.edges[i].weight.pool_address : i \in 1..Len(g.edges)}

AddTestPool ==
    /\ \E p \in TestPools :
         /\ p.pool_address \notin PoolsOf(pool_graph)
         /\ pool_graph' = add_pool(pool_graph, p.pool_address, p.token_a,
                                   p.token_b, p.reserve_a, p.reserve_b,
                                   p.dex_type, p.fee_bps)
         /\ g_ret' = [op |-> "add_pool",
                      args |-> <<p.pool_address, p.token_a, p.token_b,
                                 p.reserve_a, p.reserve_b>>,
                      kind |-> "Ok", route |-> <<>>]
    /\ UNCHANGED <<rpc_vars, sim_vars>>

FindTestRoute ==
    /\ \E from_token \in Tokens, to_token \in Tokens, amount_in \in TestAmounts :
         \E r \in find_route(pool_graph, from_token, to_token, amount_in) :
            g_ret' = [op |-> "find_route",
                      args |-> <<from_token, to_token, amount_in>>,
                      kind |-> r.kind, route |-> r.route]
    /\ UNCHANGED <<rpc_vars, pool_graph, sim_vars>>

\* the route just returned is simulated with the amount it was asked for
SimulateRoute ==
    /\ g_ret.op = "find_route"
    /\ g_ret.kind = "Ok"
    /\ sim_in' = [route |-> g_ret.route, amount_in |-> g_ret.args[3]]
    /\ sim_out' = calculate_output_amount(g_ret.route, g_ret.args[3],
                                          build_checks)
    /\ UNCHANGED <<rpc_vars, pool_graph, g_ret, sim_prev, build_checks,
                   best_in, best_out>>

E2ENext == AddTestPool \/ FindTestRoute \/ SimulateRoute

E2EInit ==
    /\ InitWith(1, {<<>>}, {0})
    /\ pool_graph = PoolGraph_new
    /\ g_ret = NoCall
    /\ sim_in = NoSim
    /\ sim_out = NoOut
    /\ sim_prev = NoPrev
    /\ build_checks \in BOOLEAN
    /\ best_in = [routes |-> <<>>, amount_in |-> 0]
    /\ best_out = NoBest
E2ESpec == E2EInit /\ [][E2ENext]_vars

(***************************************************************************)
(* Pools with any fee add_pool accepts (fee_bps is an unchecked u16), the  *)
(* routes found over them and their simulation                             *)
(***************************************************************************)
\* the pools a behaviour may add, each once, with any reserves and fee
FeePools ==
    { [pool_address |-> "pool1", token_a |-> "SOL", token_b |-> "USDC"],
      [pool_address |-> "pool2", token_a |-> "USDC", token_b |-> "USDT"] }

AddFeePool ==
    /\ \E p \in FeePools, rs \in ReservePairs, fee_bps \in SimFees :
         /\ p.pool_address \notin PoolsOf(pool_graph)
         /\ pool_graph' = add_pool(pool_graph, p.pool_address, p.token_a,
                                   p.token_b, rs[1], rs[2], "RaydiumV4",
                                   fee_bps)
         /\ g_ret' = [op |-> "add_pool",
                      args |-> <<p.pool_address, p.token_a, p.token_b,
                                 rs[1], rs[2]>>,
                      kind |-> "Ok", route |-> <<>>]
    /\ sim_in' = NoSim
    /\ sim_out' = NoOut
    /\ UNCHANGED <<rpc_vars, sim_prev, build_checks, best_in, best_out>>

FindFeeRoute ==
    /\ \E from_token \in Tokens, to_token \in Tokens, amount_in \in AmountsIn :
         \E r \in find_route(pool_graph, from_token, to_token, amount_in) :
            g_ret' = [op |-> "find_route",
                      args |-> <<from_token, to_token, amount_in>>,
                      kind |-> r.kind, route |-> r.route]
    /\ sim_in' = NoSim
    /\ sim_out' = NoOut
    /\ UNCHANGED <<rpc_vars, pool_graph, sim_prev, build_checks, best_in,
                   best_out>>

FeeNext == AddFeePool \/ FindFeeRoute \/ SimulateRoute

FeeSpec == E2EInit /\ [][FeeNext]_vars

(***************************************************************************)
(* Properties of the endpoint manager                                      *)
(***************************************************************************)
\* what the properties mean by "in window and at the cap" / "qualifying"
AtCap(e, t) ==
    /\ t - e.last_reset <= WINDOW_SECS
    /\ e.request_count >= MAX_REQUESTS_PER_SECOND

Usable(e, t) == e.is_healthy /\ ~AtCap(e, t)

\* C1: round-robin fairness.  Consecutive successful selections made while
\* every endpoint is healthy and unthrottled return the endpoint under the
\* cursor, follow insertion order, cover each endpoint exactly once in any
\* total of them, come back to the first endpoint on the (total+1)-th, and
\* leave the cursor at the selected index plus one modulo total.
C1_RoundRobin ==
    LET n == Len(sel_log)
    IN  /\ \A k \in 1..n : sel_log[k].idx = sel_log[k].start
        /\ \A k \in 1..(n - 1) :
               sel_log[k + 1].idx = (sel_log[k].idx + 1) % total
        /\ \A k \in 1..n : \A m \in 1..n :
               (k < m /\ m - k < total) => sel_log[k].idx # sel_log[m].idx
        /\ n >= total =>
               {sel_log[k].idx : k \in 1..total} = 0..(total - 1)
        /\ n = total + 1 => sel_log[n].idx = sel_log[1].idx
        /\ n >= 1 => current_index = (sel_log[n].idx + 1) % total

\* C1 witness: total+1 consecutive selections, the last one wrapping around
C1_Witness == Len(sel_log) = total + 1

FirstWithUrl(url) ==
    CHOOSE i \in DOMAIN endpoints :
        /\ endpoints[i].url = url
        /\ \A j \in DOMAIN endpoints : endpoints[j].url = url => i <= j

\* C3: health transition.  For every known url: 5 or more failures reported
\* in a row leave its endpoint unhealthy, fewer than 5 leave it healthy, and
\* a success report leaves it healthy with a failure count of 0.
C3_HealthTransition ==
    \A u \in DOMAIN reports :
        LET e == endpoints[FirstWithUrl(u)]
        IN  /\ reports[u].fails >= 5 => ~e.is_healthy
            /\ reports[u].fails < 5 => e.is_healthy
            /\ reports[u].fails = 0 => e.consecutive_failures = 0
            /\ e.consecutive_failures = reports[u].fails

\* C3 witness: an endpoint that went unhealthy after 5 failures has been
\* revived by one success report, while another is unhealthy after 5
C3_Witness ==
    /\ \E u \in DOMAIN reports :
         /\ reports[u].revived
         /\ endpoints[FirstWithUrl(u)].is_healthy
         /\ endpoints[FirstWithUrl(u)].consecutive_failures = 0
    /\ \E u \in DOMAIN reports :
         /\ reports[u].fails = 5
         /\ ~endpoints[FirstWithUrl(u)].is_healthy

\* C4 (as claimed): no endpoint ever has more than 50 requests recorded in
\* one window, whatever the interleaving of the callers
C4_WindowCap ==
    \A i \in DOMAIN endpoints :
        endpoints[i].request_count <= MAX_REQUESTS_PER_SECOND

\* C5: get_client fails if and only if no endpoint is healthy and
\* unthrottled when it scans; otherwise it selects a qualifying endpoint
\* after examining at most total candidates.
C5_FailsIffNoneUsable ==
    [][\A t \in Tasks :
        (pc[t] = "gc_scan" /\ pc'[t] # "gc_scan") =>
            /\ (pc'[t] = "idle" /\ last_ret'.kind = "err")
                  <=> (\A i \in DOMAIN endpoints : ~Usable(endpoints[i], now))
            /\ pc'[t] \in {"idle", "gc_record"}
            /\ pc'[t] = "gc_record" =>
                  /\ Usable(endpoints[arg'[t].selected_idx], now)
                  /\ arg'[t].examined <= total
                  /\ readers' = readers \ {t}
      ]_vars

\* C5 witness: a select has failed with one endpoint unhealthy and another
\* one throttled
C5_Witness ==
    /\ last_ret.kind = "err"
    /\ \E i \in DOMAIN endpoints : ~endpoints[i].is_healthy
    /\ \E i \in DOMAIN endpoints :
         endpoints[i].is_healthy /\ AtCap(endpoints[i], now)


(***************************************************************************)
(* Properties of the pool graph                                            *)
(***************************************************************************)
\* the latest call was find_route(from, to, amount_in)
Queried == g_ret.op = "find_route"
q_from == g_ret.args[1]
q_to == g_ret.args[2]
q_amount == g_ret.args[3]

HasNode(g, token) == token \in DOMAIN g.token_to_node

\* every directed path without a repeated node from node u to node v, as a
\* sequence of edge indices
RECURSIVE PathsFrom(_, _, _, _)
PathsFrom(g, u, v, seen) ==
    IF u = v THEN {<<>>}
    ELSE UNION {
           {<<i>> \o rest :
               rest \in PathsFrom(g, g.edges[i].target, v,
                                  seen \cup {g.edges[i].target})}
           : i \in {j \in 1..Len(g.edges) :
                      g.edges[j].source = u /\ g.edges[j].target \notin seen} }

AllRoutes(g, from_token, to_token) ==
    PathsFrom(g, g.token_to_node[from_token], g.token_to_node[to_token],
              {g.token_to_node[from_token]})

\* the hops (source token, pool) of a path of edge indices
HopsOf(g, path) ==
    [k \in 1..Len(path) |->
        <<g.nodes[g.edges[path[k]].source], g.edges[path[k]].weight>>]

\* the sum, hop by hop, of the edge weights of a route
RECURSIVE RouteWeight(_, _, _)
RouteWeight(route, amount_in, k) ==
    IF k = 0 THEN f64_zero
    ELSE f64_add(RouteWeight(route, amount_in, k - 1),
                 calculate_weight(route[k][2], route[k][1], amount_in))

TotalWeight(route, amount_in) == RouteWeight(route, amount_in, Len(route))

\* the pools added for the token pair {from_token, to_token}
PoolsBetween(g, from_token, to_token) ==
    {g.edges[i].weight :
        i \in {j \in 1..Len(g.edges) :
                  {g.edges[j].weight.token_a, g.edges[j].weight.token_b}
                     = {from_token, to_token}}}

\* the pools of the graph joining the queried tokens with non-zero reserves
QueriedPools ==
    {P \in PoolsBetween(pool_graph, q_from, q_to) :
        P.reserve_a > 0 /\ P.reserve_b > 0}

\* C6 as stated: after a pool P with non-zero reserves was added between A
\* and B, find_route between A and B succeeds in either direction for every
\* amount, and when P is the only pool between A and B the route is the
\* single hop over P.
C6_SingleHopWhenOnlyPoolBetween ==
    Queried =>
      \A P \in QueriedPools :
         /\ g_ret.kind = "Ok"
         /\ PoolsBetween(pool_graph, q_from, q_to) = {P}
              => g_ret.route = << <<q_from, P>> >>

\* C6, corrected: find_route between A and B succeeds in either direction
\* for every amount; when A # B, P is the only pool between them and no
\* route through other tokens weighs strictly less than the hop over P, the
\* route is the single hop over P.
C6_Bidirectional ==
    Queried =>
      \A P \in QueriedPools :
         /\ g_ret.kind = "Ok"
         /\ ( /\ q_from # q_to
              /\ PoolsBetween(pool_graph, q_from, q_to) = {P}
              /\ \A r \in AllRoutes(pool_graph, q_from, q_to) :
                    f64_le(TotalWeight(<< <<q_from, P>> >>, q_amount),
                           TotalWeight(HopsOf(pool_graph, r), q_amount)) )
              => g_ret.route = << <<q_from, P>> >>

\* a query answered by the single hop over the only pool between two
\* tokens while two other pools offer a way round
C6_Witness ==
    /\ Queried
    /\ q_from # q_to
    /\ q_amount > 0
    /\ pool_count = Len(PoolInputs)
    /\ \E P \in QueriedPools :
         /\ PoolsBetween(pool_graph, q_from, q_to) = {P}
         /\ g_ret.route = << <<q_from, P>> >>
         /\ Cardinality(AllRoutes(pool_graph, q_from, q_to)) > 1

\* C7: the route find_route returns weighs no more than any other route
\* from the source to the destination, parallel pools included.
C7_MinimumCost ==
    (Queried /\ g_ret.kind = "Ok") =>
      \A r \in AllRoutes(pool_graph, q_from, q_to) :
         f64_le(TotalWeight(g_ret.route, q_amount),
                TotalWeight(HopsOf(pool_graph, r), q_amount))

\* the nodes reachable from the nodes in S along directed edges
RECURSIVE ReachFrom(_, _)
ReachFrom(g, S) ==
    LET S2 == S \cup {g.edges[i].target :
                        i \in {j \in 1..Len(g.edges) : g.edges[j].source \in S}}
    IN  IF S2 = S THEN S ELSE ReachFrom(g, S2)

Connected(g, from_token, to_token) ==
    g.token_to_node[to_token] \in ReachFrom(g, {g.token_to_node[from_token]})

\* the failures of find_route, by the taxonomy of the specification
TokenNotInGraph(kind) ==
    kind \in {"Start token not in graph", "End token not in graph"}
NoRouteFound(kind) == kind = "No route found"

\* C8: find_route fails with TokenNotInGraph exactly when the source or the
\* destination has no node, with NoRouteFound exactly when both have nodes
\* and no directed path joins them; a failure carries no route, and the call
\* leaves the graph as it was.
C8_FindRouteFailures ==
    [][ g_ret'.op = "find_route" =>
          LET from_token == g_ret'.args[1]
              to_token == g_ret'.args[2]
              both == HasNode(pool_graph, from_token) /\ HasNode(pool_graph, to_token)
          IN  /\ TokenNotInGraph(g_ret'.kind) <=> ~both
              /\ NoRouteFound(g_ret'.kind)
                   <=> (both /\ ~Connected(pool_graph, from_token, to_token))
              /\ g_ret'.kind \in {"Ok", "Start token not in graph",
                                  "End token not in graph", "No route found"}
              /\ g_ret'.kind # "Ok" => g_ret'.route = <<>>
              /\ pool_graph' = pool_graph ]_vars

\* a query between two tokens that both have nodes and are not connected
C8_Witness ==
    /\ Queried
    /\ NoRouteFound(g_ret.kind)
    /\ HasNode(pool_graph, q_from) /\ HasNode(pool_graph, q_to)
    /\ pool_count >= 2

\* C9: update_reserves on a known pool sets reserve_a and reserve_b on every
\* edge of that pool, both directions, and changes nothing else: no other
\* edge, no other field, no node; on an unknown pool it fails with "Pool not
\* found" and the graph stays as it was.
C9_UpdateReservesFrame ==
    [][ g_ret'.op = "update_reserves" =>
          LET pool_address == g_ret'.args[1]
              known == \E i \in 1..Len(pool_graph.edges) :
                          pool_graph.edges[i].weight.pool_address = pool_address
          IN  IF known
              THEN /\ g_ret'.kind = "Ok"
                   /\ pool_graph'.nodes = pool_graph.nodes
                   /\ pool_graph'.token_to_node = pool_graph.token_to_node
                   /\ Len(pool_graph'.edges) = Len(pool_graph.edges)
                   /\ \A i \in 1..Len(pool_graph.edges) :
                        LET old == pool_graph.edges[i]
                            new == pool_graph'.edges[i]
                        IN  IF old.weight.pool_address = pool_address
                            THEN /\ new.weight.reserve_a = g_ret'.args[2]
                                 /\ new.weight.reserve_b = g_ret'.args[3]
                                 /\ new = [old EXCEPT
                                             !.weight.reserve_a = new.weight.reserve_a,
                                             !.weight.reserve_b = new.weight.reserve_b]
                            ELSE new = old
                   /\ \E i, j \in 1..Len(pool_graph.edges) :
                        /\ pool_graph.edges[i].weight.pool_address = pool_address
                        /\ pool_graph.edges[j].weight.pool_address = pool_address
                        /\ pool_graph.edges[i].source = pool_graph.edges[j].target
                        /\ pool_graph.edges[i].target = pool_graph.edges[j].source
                        /\ i # j
              ELSE /\ g_ret'.kind = "Pool not found"
                   /\ pool_graph' = pool_graph ]_vars

\* an update that took effect on both edges of one pool next to a pool that
\* keeps other reserves
C9_Witness ==
    /\ g_ret.op = "update_reserves"
    /\ g_ret.kind = "Ok"
    /\ Cardinality({i \in 1..Len(pool_graph.edges) :
                      /\ pool_graph.edges[i].weight.pool_address = g_ret.args[1]
                      /\ pool_graph.edges[i].weight.reserve_a = g_ret.args[2]
                      /\ pool_graph.edges[i].weight.reserve_b = g_ret.args[3]}) = 2
    /\ \E i \in 1..Len(pool_graph.edges) :
         /\ pool_graph.edges[i].weight.pool_address # g_ret.args[1]
         /\ pool_graph.edges[i].weight.reserve_a # g_ret.args[2]

(***************************************************************************)
(* Properties of the route optimizer                                       *)
(***************************************************************************)
\* floor(x / y) for any y; with y = 0 there is no quotient, which -1 stands
\* for (no u64 equals it)
Floor(x, y) ==
    IF y > 0 THEN x \div y
    ELSE IF y < 0 THEN (0 - x) \div (0 - y)
    ELSE -1

\* the hop-by-hop computation the specification gives for simulate
RECURSIVE ReferenceOutput(_, _, _)
ReferenceOutput(route, i, currentAmount) ==
    IF i > Len(route) THEN currentAmount
    ELSE LET rs == reserves_from(route[i][2], route[i][1])
         IN  IF rs[1] = 0 \/ rs[2] = 0 THEN 0
             ELSE LET amountAfterFee ==
                        Floor(currentAmount * (10000 - route[i][2].fee_bps), 10000)
                      amountOut ==
                        Floor(amountAfterFee * rs[2], rs[1] + amountAfterFee)
                  IN  ReferenceOutput(route, i + 1, amountOut)

\* C10: calculate_output_amount(route, amount_in) returns the result of the
\* reference hop-by-hop computation.
C10_SimulateIsReference ==
    sim_out # NoOut =>
      /\ sim_out.kind = "ok"
      /\ sim_out.amount = ReferenceOutput(sim_in.route, 1, sim_in.amount_in)

\* the same, for routes whose pools all charge at most 10000 basis points
C10_WithinFeeRange ==
    (sim_out # NoOut /\ \A k \in 1..Len(sim_in.route) :
                          sim_in.route[k][2].fee_bps <= FEE_SCALE) =>
      /\ sim_out.kind = "ok"
      /\ sim_out.amount = ReferenceOutput(sim_in.route, 1, sim_in.amount_in)


\* some hop of the route has a zero reserve on either side
HasZeroReserve(route) ==
    \E k \in 1..Len(route) :
       route[k][2].reserve_a = 0 \/ route[k][2].reserve_b = 0

FeesInRange(route) ==
    \A k \in 1..Len(route) : route[k][2].fee_bps <= FEE_SCALE

\* what C11 says of the latest result and of the one before it on the same
\* route
MonotoneAndZero ==
    /\ sim_out.kind = "ok"
    /\ (sim_in.amount_in = 0 \/ HasZeroReserve(sim_in.route))
         => sim_out.amount = 0
    /\ sim_prev # NoPrev =>
         /\ sim_prev.out.kind = "ok"
         /\ sim_prev.amount_in <= sim_in.amount_in
              => sim_prev.out.amount <= sim_out.amount
         /\ sim_in.amount_in <= sim_prev.amount_in
              => sim_out.amount <= sim_prev.out.amount

\* C11: on a route of at least one hop, calculate_output_amount is
\* non-decreasing in amount_in, and returns 0 when amount_in is 0 or when a
\* hop has a zero reserve on either side.
C11_Monotone ==
    (Len(sim_in.route) >= 1 /\ sim_out # NoOut) => MonotoneAndZero

\* the same, for routes whose pools all charge at most 10000 basis points
C11_WithinFeeRange ==
    (Len(sim_in.route) >= 1 /\ sim_out # NoOut /\ FeesInRange(sim_in.route))
       => MonotoneAndZero


\* simulate of the i-th candidate (counted from 1) in the running build
SimOf(i) ==
    calculate_output_amount(best_in.routes[i], best_in.amount_in, build_checks)

Candidates == 1..Len(best_in.routes)

\* what C12 says of the result of find_best_route
BestIsFirstMaximum ==
    /\ \A i \in Candidates : SimOf(i).kind = "ok"
    /\ best_out.kind \in {"Some", "None"}
    /\ best_out.kind = "None"
         <=> (Candidates = {} \/ \A i \in Candidates : SimOf(i).amount = 0)
    /\ best_out.kind = "Some" =>
         /\ \A i \in Candidates : SimOf(i).amount <= best_out.output
         /\ best_out.index + 1 \in Candidates
         /\ SimOf(best_out.index + 1).amount = best_out.output
         /\ \A i \in Candidates :
               SimOf(i).amount = best_out.output => best_out.index + 1 <= i

\* C12: find_best_route returns the greatest output over the candidates with
\* the smallest index that achieves it, and None exactly when there is no
\* candidate or every candidate yields 0.
C12_SelectBest ==
    best_out # NoBest => BestIsFirstMaximum

\* the same, for candidates whose pools all charge at most 10000 basis points
C12_WithinFeeRange ==
    (best_out # NoBest /\ \A i \in Candidates : FeesInRange(best_in.routes[i]))
       => BestIsFirstMaximum


(***************************************************************************)
(* The end-to-end scenario                                                 *)
(***************************************************************************)
\* the graph holds exactly the two pools of the scenario and the latest
\* call was find_route(SOL, USDT, 10_000_000)
ScenarioQuery ==
    /\ PoolsOf(pool_graph) = {"pool1", "pool2"}
    /\ Queried
    /\ g_ret.args = <<"SOL", "USDT", 10000000>>

\* ... and the route it returned has been simulated with that amount
ScenarioSimulated ==
    /\ ScenarioQuery
    /\ sim_in = [route |-> g_ret.route, amount_in |-> 10000000]
    /\ sim_out # NoOut

\* C13: with only the SOL/USDC pool (1,000,000,000 / 150,000,000, fee 30)
\* and the USDC/USDT pool (1,000,000,000 / 1,000,000,000, fee 1) in the
\* graph, find_route(SOL, USDT, 10_000_000) returns a route of exactly two
\* hops with sources SOL then USDC, and simulating that route with
\* 10_000_000 returns one and the same positive integer, 1,478,399, in
\* every behaviour and every build.
C13_EndToEnd ==
    /\ ScenarioQuery =>
         /\ g_ret.kind = "Ok"
         /\ Len(g_ret.route) = 2
         /\ g_ret.route[1][1] = "SOL"
         /\ g_ret.route[2][1] = "USDC"
    /\ ScenarioSimulated =>
         /\ sim_out.kind = "ok"
         /\ sim_out.amount > 0
         /\ sim_out.amount = 1478399

C13_Witness ==
    /\ ScenarioSimulated
    /\ Len(g_ret.route) = 2
    /\ sim_out.amount > 0


(***************************************************************************)
(* Cursor and collection                                                   *)
(***************************************************************************)
\* the URLs of a collection, in order
UrlsOf(eps) == [i \in 1..Cardinality(DOMAIN eps) |-> eps[i - 1].url]

\* the cursor is an index of the collection, which holds the endpoints
\* RpcManager::new builds: the credentialed ones in the order of the keys,
\* then the fallbacks
CursorAndCollection(eps, cur) ==
    /\ Cardinality(DOMAIN eps) >= 1
    /\ DOMAIN eps = 0..(Cardinality(DOMAIN eps) - 1)
    /\ cur \in DOMAIN eps
    /\ \E keys \in KeyLists : UrlsOf(eps) = new_urls(keys)

Selects(t) == pc[t] = "gc_scan" /\ pc'[t] = "gc_record"

\* C15: from the moment an endpoint is marked unhealthy (5 failures
\* reported in a row) until a record_success for its url, no get_client
\* selects it; and once that record_success has happened, as long as it is
\* not throttled and not marked unhealthy again, at most N - 1 successful
\* selections return other endpoints before it is returned, so it is
\* returned within at most N successful selections.
C15_RemovedUntilSuccess ==
    [][/\ \A t \in Tasks :
            Selects(t) =>
              reports[endpoints[arg'[t].selected_idx].url].fails
                 < UNHEALTHY_AFTER
       /\ \A u \in DOMAIN reports : reports'[u].since <= total - 1]_vars

\* an endpoint revived by a success report has been returned again, as the
\* latest selection, and others wait for nothing
C15_Witness ==
    \E u \in DOMAIN reports :
        /\ reports[u].revived
        /\ reports[u].since = -1
        /\ last_ret = [kind |-> "ok", idx |-> FirstWithUrl(u)]
        /\ \E v \in DOMAIN reports : reports[v].fails >= UNHEALTHY_AFTER


(***************************************************************************)
(* What record_success and record_failure leave alone                      *)
(***************************************************************************)
\* this step is a record_success or record_failure call
Reported == last_call'.op \in {"record_success", "record_failure"}

\* C16: record_success(url) and record_failure(url) change only the
\* consecutive-failure count and the healthy flag of the endpoint whose url
\* is url: the cursor, every endpoint's url, window count and window start,
\* and every other endpoint stay as they were; and when no endpoint has
\* that url the whole manager state stays as it was.
C16_RecordFrame ==
    [][Reported =>
         /\ current_index' = current_index
         /\ DOMAIN endpoints' = DOMAIN endpoints
         /\ \A i \in DOMAIN endpoints :
              /\ endpoints'[i].url = endpoints[i].url
              /\ endpoints'[i].request_count = endpoints[i].request_count
              /\ endpoints'[i].last_reset = endpoints[i].last_reset
              /\ endpoints[i].url # last_call'.url =>
                   endpoints'[i] = endpoints[i]
         /\ (\A i \in DOMAIN endpoints : endpoints[i].url # last_call'.url) =>
              UNCHANGED <<endpoints, current_index, readers, idx_owner>>]_vars

\* the 5th failure has just been reported for an endpoint while the cursor
\* is off 0, the other endpoint has failures of its own and requests are
\* counted in a window that started after construction
C16_Witness ==
    /\ last_call.op = "record_failure"
    /\ current_index # 0
    /\ \E i \in DOMAIN endpoints :
         /\ endpoints[i].url = last_call.url
         /\ ~endpoints[i].is_healthy
         /\ \E j \in DOMAIN endpoints \ {i} :
              /\ endpoints[j].consecutive_failures > 0
              /\ endpoints[j].last_reset > 0


(***************************************************************************)
(* health_status                                                           *)
(***************************************************************************)
\* the requests of endpoint e that fall in the window current at time t
CurrentWindowCount(e, t) ==
    IF elapsed(e, t) > WINDOW_SECS THEN 0 ELSE e.request_count

\* C17 (as claimed): health_status returns one (url, healthy, count) entry
\* per endpoint in insertion order, count being the endpoint's request
\* count in the current window (0 once its last window has elapsed without
\* a new selection), and the call changes no manager state.
C17_HealthSnapshot ==
    [][last_call'.op = "health_status" =>
         /\ UNCHANGED <<endpoints, current_index, readers, idx_owner, pc>>
         /\ Len(last_call'.view) = total
         /\ \A i \in DOMAIN endpoints :
              last_call'.view[i + 1] =
                <<endpoints[i].url, endpoints[i].is_healthy,
                  CurrentWindowCount(endpoints[i], now)>>]_vars

\* what the code returns: the stored counter, whatever the age of the
\* window it was counted in; nothing is changed
C17_StoredCount ==
    [][last_call'.op = "health_status" =>
         /\ UNCHANGED <<endpoints, current_index, readers, idx_owner, pc>>
         /\ Len(last_call'.view) = total
         /\ \A i \in DOMAIN endpoints :
              last_call'.view[i + 1] =
                <<endpoints[i].url, endpoints[i].is_healthy,
                  endpoints[i].request_count>>]_vars


(***************************************************************************)
(* Lock discipline                                                         *)
(***************************************************************************)
\* a task outside get_client, or past its loop, holds no guard
NoGuardHeld(t) == t \notin readers /\ t \notin idx_owner

\* C18: with the guards taken as in the code (endpoints read, then cursor
\* write, both dropped, then endpoints write to record the request) and
\* any number of tasks calling concurrently, under fair scheduling every
\* get_client call that has started returns, a task holds no guard once its
\* call has returned, and both locks are free again and again, so that no
\* record_success, record_failure or health_status call waits for ever.
C18_DeadlockFree ==
    /\ [](\A t \in 1..NumTasks : pc[t] \in {"idle", "gc_record"} => NoGuardHeld(t))
    /\ \A t \in 1..NumTasks : (pc[t] # "idle") ~> (pc[t] = "idle")
    /\ []<>(readers = {} /\ idx_owner = {})

\* one task waits for the endpoints write guard to record its request
\* while another, holding a read guard, waits for nothing but its turn
C18_Witness ==
    \E t \in Tasks, u \in Tasks :
        /\ t # u
        /\ pc[t] = "gc_record"
        /\ pc[u] = "gc_index"
        /\ u \in readers


(***************************************************************************)
(* The edges of a pool                                                     *)
(***************************************************************************)
EdgesOfPool(g, p) ==
    {i \in 1..Len(g.edges) : g.edges[i].weight.pool_address = p}

\* the edges of pool p that run from its token A to its token B / back
AtoB(g, p) ==
    {i \in EdgesOfPool(g, p) :
        /\ g.nodes[g.edges[i].source] = g.edges[i].weight.token_a
        /\ g.nodes[g.edges[i].target] = g.edges[i].weight.token_b}
BtoA(g, p) ==
    {i \in EdgesOfPool(g, p) :
        /\ g.nodes[g.edges[i].source] = g.edges[i].weight.token_b
        /\ g.nodes[g.edges[i].target] = g.edges[i].weight.token_a}

\* all edges of pool p carry the same pool id, venue type, token ids, fee
\* and reserves
SameFields(g, p) ==
    \A i \in EdgesOfPool(g, p), j \in EdgesOfPool(g, p) :
        g.edges[i].weight = g.edges[j].weight

\* one node per token id, and token_to_node is its index
NodesDeduplicated(g) ==
    /\ \A i \in 1..Len(g.nodes), j \in 1..Len(g.nodes) :
         g.nodes[i] = g.nodes[j] => i = j
    /\ DOMAIN g.token_to_node = {g.nodes[i] : i \in 1..Len(g.nodes)}
    /\ \A tk \in DOMAIN g.token_to_node : g.nodes[g.token_to_node[tk]] = tk

\* C19 (as claimed): after any add_pool calls (each pool id once) and
\* update_reserves calls, every pool present has exactly one A->B edge and
\* exactly one B->A edge, both with the same fields, and there is one node
\* per token id.
C19_ExactlyOneEachWay ==
    /\ \A p \in PoolsOf(pool_graph) :
         /\ Cardinality(AtoB(pool_graph, p)) = 1
         /\ Cardinality(BtoA(pool_graph, p)) = 1
         /\ SameFields(pool_graph, p)
    /\ NodesDeduplicated(pool_graph)

\* C19 (amended): every pool present has exactly two edges, one from the
\* node of its token A to the node of its token B and the other one back,
\* both with the same fields, and there is one node per token id.  (For a
\* pool added with token A = token B the two are parallel self-loops, each
\* of them both an A->B and a B->A edge.)
C19_TwoEdges ==
    /\ \A p \in PoolsOf(pool_graph) :
         /\ Cardinality(EdgesOfPool(pool_graph, p)) = 2
         /\ \E i \in AtoB(pool_graph, p), j \in BtoA(pool_graph, p) : i # j
         /\ SameFields(pool_graph, p)
    /\ NodesDeduplicated(pool_graph)

\* three pools are in the graph, two of them on the same pair of distinct
\* tokens, and the reserves of one have just been updated to new values
C19_Witness ==
    /\ pool_count = 3
    /\ g_ret.op = "update_reserves"
    /\ g_ret.kind = "Ok"
    /\ \E i \in 1..Len(pool_graph.edges), j \in 1..Len(pool_graph.edges) :
         LET P == pool_graph.edges[i].weight
             Q == pool_graph.edges[j].weight
         IN  /\ P.pool_address # Q.pool_address
             /\ P.token_a # P.token_b
             /\ {P.token_a, P.token_b} = {Q.token_a, Q.token_b}
             /\ P.pool_address = g_ret.args[1]
             /\ <<P.reserve_a, P.reserve_b>> # <<Q.reserve_a, Q.reserve_b>>


(***************************************************************************)
(* Well-formed routes                                                      *)
(***************************************************************************)
\* the token a hop leaves its pool with: the pool's token other than the
\* hop's source
NonSource(hop) ==
    IF hop[1] = hop[2].token_a THEN hop[2].token_b ELSE hop[2].token_a

\* the hops of a route chain from from_token to to_token
Chains(route, from_token, to_token) ==
    /\ route[1][1] = from_token
    /\ \A k \in 1..Len(route) :
         route[k][1] \in {route[k][2].token_a, route[k][2].token_b}
    /\ \A k \in 1..(Len(route) - 1) : NonSource(route[k]) = route[k + 1][1]
    /\ NonSource(route[Len(route)]) = to_token

\* C20 (as claimed): every route find_route(from, to, amount_in) returns
\* successfully, for any tokens including from = to, has at least one hop,
\* starts at from, has each hop leave from one of its pool's two tokens,
\* chains hop to hop and ends at to.
C20_WellFormed ==
    (Queried /\ g_ret.kind = "Ok") =>
       /\ Len(g_ret.route) >= 1
       /\ Chains(g_ret.route, q_from, q_to)

\* what holds: a route returned for two different tokens is well-formed,
\* and the route returned for from = to is the empty one
C20_WellFormedOrEmpty ==
    (Queried /\ g_ret.kind = "Ok") =>
       IF q_from = q_to THEN g_ret.route = <<>>
       ELSE /\ Len(g_ret.route) >= 1
            /\ Chains(g_ret.route, q_from, q_to)


(***************************************************************************)
(* Zero-reserve edges                                                      *)
(***************************************************************************)
\* the reserve a hop (source token, pool) draws on
SourceReserve(hop) == reserves_from(hop[2], hop[1])[1]

\* the hops the edges of the graph stand for
EdgeHops(g) ==
    {<<g.nodes[g.edges[i].source], g.edges[i].weight>> : i \in 1..Len(g.edges)}

\* C21 (as claimed): calculate_weight returns the maximum representable
\* weight whenever the reserve on the source side is 0, for every amount_in
\* including 0, and find_route never returns a route with a hop whose
\* source-side reserve is 0.
C21_ZeroReserveImpassable ==
    /\ \A hop \in EdgeHops(pool_graph), amount_in \in AmountsIn :
         SourceReserve(hop) = 0 =>
           calculate_weight(hop[2], hop[1], amount_in) = f64_MAX
    /\ (Queried /\ g_ret.kind = "Ok") =>
         \A k \in 1..Len(g_ret.route) : SourceReserve(g_ret.route[k]) # 0

\* the second half alone, for a positive amount_in
C21_NoZeroReserveHopForPositiveAmount ==
    (Queried /\ g_ret.kind = "Ok" /\ q_amount > 0) =>
       \A k \in 1..Len(g_ret.route) : SourceReserve(g_ret.route[k]) # 0

\* what holds of the weight: the maximum for a positive amount_in, 0 for
\* amount_in = 0
C21_WeightOfZeroReserve ==
    \A hop \in EdgeHops(pool_graph), amount_in \in AmountsIn :
        SourceReserve(hop) = 0 =>
          calculate_weight(hop[2], hop[1], amount_in) =
            IF amount_in = 0 THEN f64_zero ELSE f64_MAX


(***************************************************************************)
(* The arithmetic of calculate_output_amount                               *)
(***************************************************************************)
\* the pools stored in the graph
StoredPools(g) == {g.edges[i].weight : i \in 1..Len(g.edges)}

\* the route of the latest find_route has been simulated
Simulated ==
    /\ Queried
    /\ g_ret.kind = "Ok"
    /\ sim_in = [route |-> g_ret.route, amount_in |-> q_amount]
    /\ sim_out # NoOut

\* what hop k of the simulated route pays out
HopOut(k) ==
    calculate_output_amount(SubSeq(sim_in.route, 1, k), sim_in.amount_in,
                            build_checks)

\* C22 (as claimed): for every route over pools accepted by add_pool and
\* every amount_in, the arithmetic of calculate_output_amount neither
\* underflows nor overflows: every stored pool has fee_bps < 10000, so that
\* 10000 - fee_bps is never negative, the call returns a value, and every
\* hop that trades pays out strictly less than its reserve_out.
C22_NoOverflow ==
    /\ \A P \in StoredPools(pool_graph) : P.fee_bps < FEE_SCALE
    /\ Simulated =>
         /\ sim_out.kind = "ok"
         /\ \A k \in 1..Len(sim_in.route) :
              ~HasZeroReserve(SubSeq(sim_in.route, 1, k)) =>
                 HopOut(k).amount < reserves_from(sim_in.route[k][2],
                                                  sim_in.route[k][1])[2]

\* the same for the routes whose pools have fee_bps <= 10000
C22_WithinFeeRange ==
    (Simulated /\ FeesInRange(sim_in.route)) =>
         /\ sim_out.kind = "ok"
         /\ \A k \in 1..Len(sim_in.route) :
              ~HasZeroReserve(SubSeq(sim_in.route, 1, k)) =>
                 HopOut(k).amount < reserves_from(sim_in.route[k][2],
                                                  sim_in.route[k][1])[2]

\* a route over a stored pool with fee_bps > 10000 has been simulated and
\* the call did not return a value of the formula
C22_Underflow ==
    Simulated => sim_out.kind = "ok"


(***************************************************************************)
(* The scanner as a caller of the manager                                  *)
(***************************************************************************)
\* the latest call is a report of the outcome for `url`
ReportedFor(url) ==
    /\ last_call.op \in {"record_success", "record_failure"}
    /\ last_call.url = url

\* C23 (as claimed): in every scan cycle, once the ledger queries issued
\* with the handle obtained from get_client have answered or failed and
\* before scan_once returns, record_success or record_failure has been
\* called with the url of that handle.
C23_CallerProtocol ==
    pc[Bot] = "scan_return" => ReportedFor(HandleUrl)

\* what the scanner does instead: whatever the queries answer, no endpoint
\* ever counts a failure or leaves the rotation
C23_HealthUntouched ==
    \A i \in DOMAIN endpoints :
        /\ endpoints[i].consecutive_failures = 0
        /\ endpoints[i].is_healthy

\* a scan whose two queries failed is about to return
C23_FailedQueries ==
    ~(pc[Bot] = "scan_return" /\ last_call.view = <<FALSE, FALSE>>)


(***************************************************************************)
(* The healthy flag and the failure counter                                *)
(***************************************************************************)
\* the flag of endpoint e says that its counter is below the threshold
FlagMatchesCounter(e) ==
    e.is_healthy <=> ~u32_ge(e.consecutive_failures, UNHEALTHY_AFTER)

\* C24 (as claimed): in every reachable state of the manager every
\* endpoint is healthy if and only if its consecutive-failure count is
\* less than 5, whatever record_success, record_failure and get_client
\* calls have been made.
C24_FlagIffBelowThreshold ==
    \A i \in DOMAIN endpoints : FlagMatchesCounter(endpoints[i])

\* in a build with overflow checks the flag and the counter agree for ever
C24_AgreeWithOverflowChecks ==
    build_checks => \A i \in DOMAIN endpoints : FlagMatchesCounter(endpoints[i])

\* where they disagree the counter has wrapped: the endpoint is unhealthy
\* with a count below the threshold, never healthy with a count above it
C24_DisagreeOnlyAfterWrap ==
    \A i \in DOMAIN endpoints :
        ~FlagMatchesCounter(endpoints[i]) =>
            /\ ~build_checks
            /\ ~endpoints[i].is_healthy
            /\ endpoints[i].consecutive_failures \in 0..(UNHEALTHY_AFTER - 1)

\* an endpoint is unhealthy at the threshold while another one, with
\* failures reported, is healthy below it
C24_BothSides ==
    ~ /\ \E i \in DOMAIN endpoints :
           /\ ~endpoints[i].is_healthy
           /\ endpoints[i].consecutive_failures = UNHEALTHY_AFTER
      /\ \E i \in DOMAIN endpoints :
           /\ endpoints[i].is_healthy
           /\ endpoints[i].consecutive_failures = UNHEALTHY_AFTER - 1


(***************************************************************************)
(* A get_client call that fails                                            *)
(***************************************************************************)
\* a step of a get_client call short of a selection: task t takes one of
\* the two guards, or runs the loop and bails with
\* "No available RPC endpoints"
StepOfFailingCall(t) ==
    /\ pc[t] \in {"idle", "gc_index", "gc_scan"}
    /\ pc'[t] # pc[t]
    /\ pc'[t] \in {"gc_index", "gc_scan", "idle"}
    /\ pc[t] = "gc_scan" => last_ret'.kind = "err"

\* C25: a get_client call that fails leaves the manager as it found it:
\* the step that runs the loop and bails, like the two steps that took the
\* guards before it, leaves the cursor at the value it had (the advances of
\* the loop end where they started) and leaves every endpoint's
\* request_count, last_reset, consecutive_failures and is_healthy alone.
C25_FailedSelectChangesNothing ==
    [][\A t \in Tasks :
          StepOfFailingCall(t) =>
             /\ current_index' = current_index
             /\ endpoints' = endpoints]_vars

\* C25 witness: a get_client call has failed with the cursor away from the
\* start of the vector, after the loop went once around all endpoints
C25_Witness ==
    /\ last_ret.kind = "err"
    /\ current_index # 0
    /\ \A i \in DOMAIN endpoints : ~qualifies(endpoints[i], now)
    /\ \A t \in Tasks : pc[t] = "idle"

=============================================================================
